---- MODULE Spec2Model ----
(***************************************************************************)
(* Order submission backend: POST /api/orders validates the body, inserts  *)
(* the sanitized fields into the orders table and sends notification mail. *)
(* Two deployments exist: src/server.js (admin mail only) and              *)
(* src/unnamed/part_000 (admin mail and customer confirmation).            *)
(*                                                                         *)
(* A JavaScript string is modelled as a sequence of one-character strings, *)
(* a JSON field value as a record [kind, chars] where chars is String(v).  *)
(***************************************************************************)
EXTENDS Integers, Sequences, FiniteSets, TLC

VARIABLES
    deployment,    \* which of the two server files runs
    pc,            \* pc[r]: how far the handling of request r has got
    body,          \* body[r]: req.body
    sanitized,     \* sanitized[r]: sanitizedName .. sanitizedDetails of the handler
    insertArgs,    \* insertArgs[r]: the parameter array handed to db.run
    rows,          \* the orders table, in insertion order
    adminMail,     \* adminMail[r]: the admin sendMail call and its outcome
    customerMail,  \* customerMail[r]: the customer sendMail call and its outcome
    responses,     \* responses[r]: the responses written to res, in order
    errlog,        \* errlog[r]: the console.error lines of request r
    data,          \* argument of a stand-alone validateInput call
    validation     \* its result

vars == <<deployment, pc, body, sanitized, insertArgs, rows, adminMail,
          customerMail, responses, errlog, data, validation>>

(***************************************************************************)
(* Bounds of the model.                                                    *)
(***************************************************************************)
MaxReq == 2
MaxDigits == 16

Requests == 1..MaxReq

(***************************************************************************)
(* Characters and character classes of the regular expressions.            *)
(***************************************************************************)
Letters ==
    {"a","b","c","d","e","f","g","h","i","j","k","l","m","n","o","p","q","r",
     "s","t","u","v","w","x","y","z","A","B","C","D","E","F","G","H","I","J",
     "K","L","M","N","O","P","Q","R","S","T","U","V","W","X","Y","Z"}

DigitChars == {"0","1","2","3","4","5","6","7","8","9"}

Whitespace == {" ", "\t", "\n", "\r"}

\* s with the characters of class cls removed: s.replace(/[cls]/g, '')
RECURSIVE Strip(_, _)
Strip(s, cls) ==
    IF s = <<>> THEN <<>>
    ELSE IF Head(s) \in cls THEN Strip(Tail(s), cls)
         ELSE <<Head(s)>> \o Strip(Tail(s), cls)

AllIn(s, cls) == \A i \in 1..Len(s) : s[i] \in cls
NoneIn(s, cls) == \A i \in 1..Len(s) : s[i] \notin cls

(***************************************************************************)
(* JSON field values.                                                      *)
(***************************************************************************)
Undefined == [kind |-> "undefined", chars |-> <<"u","n","d","e","f","i","n","e","d">>]
Str(s) == [kind |-> "string", chars |-> s]
Num(s) == [kind |-> "number", chars |-> s]

\* !v of JavaScript
Falsy(v) ==
    \/ v.kind = "undefined"
    \/ v.kind = "string" /\ v.chars = <<>>
    \/ v.kind = "number" /\ v.chars = <<"0">>

(***************************************************************************)
(* The three regular expressions of validateInput.  RegExp.test coerces    *)
(* its argument with String(v), which is v.chars.                          *)
(***************************************************************************)
\* /^[a-zA-Z\s]+$/
NameRegex(s) == Len(s) >= 1 /\ AllIn(s, Letters \cup Whitespace)

\* /^[^\s@]+@[^\s@]+\.[^\s@]+$/
EmailClass(s) == Len(s) >= 1 /\ NoneIn(s, Whitespace \cup {"@"})
EmailRegex(s) ==
    \E i \in 1..Len(s) : \E j \in (i + 1)..Len(s) :
        /\ s[i] = "@"
        /\ s[j] = "."
        /\ EmailClass(SubSeq(s, 1, i - 1))
        /\ EmailClass(SubSeq(s, i + 1, j - 1))
        /\ EmailClass(SubSeq(s, j + 1, Len(s)))

\* /^\+?\d{10,15}$/
PhoneMinDigits == 10
PhoneMaxDigits == 15
PhoneRegex(s) ==
    LET d == IF s # <<>> /\ Head(s) = "+" THEN Tail(s) ELSE s
    IN  /\ Len(d) >= PhoneMinDigits
        /\ Len(d) <= PhoneMaxDigits
        /\ AllIn(d, DigitChars)

\* PhoneStripped with the parentheses left out of the character class
PhoneStripped_KeepsParens(s) == Strip(s, {"-"} \cup Whitespace)

\* phone.replace(/[-()\s]/g, '')
PhoneStripped(s) == Strip(s, {"-", "(", ")"} \cup Whitespace)

(***************************************************************************)
(* validateInput.  The result is [threw, isValid, error]; threw is TRUE    *)
(* when phone.replace raises a TypeError because phone is not a string.    *)
(***************************************************************************)
MsgRequired == "All fields are required."
MsgName == "Name must contain only letters and spaces."
MsgEmail == "Invalid email format."
MsgPhone == "Invalid phone number."
NoError == "undefined"

Invalid(msg) == [threw |-> FALSE, isValid |-> FALSE, error |-> msg]
Valid == [threw |-> FALSE, isValid |-> TRUE, error |-> NoError]
TypeError == [threw |-> TRUE, isValid |-> FALSE, error |-> NoError]
\* validation before validateInput has returned
NotCalled == [threw |-> FALSE, isValid |-> FALSE, error |-> "not called"]

validateInput_EmailBeforeName(d) ==
    IF Falsy(d.name) \/ Falsy(d.email) \/ Falsy(d.phone)
         \/ Falsy(d.service) \/ Falsy(d.details)
    THEN Invalid(MsgRequired)
    ELSE IF ~EmailRegex(d.email.chars) THEN Invalid(MsgEmail)
    ELSE IF ~NameRegex(d.name.chars) THEN Invalid(MsgName)
    ELSE IF d.phone.kind # "string" THEN TypeError
    ELSE IF ~PhoneRegex(PhoneStripped(d.phone.chars)) THEN Invalid(MsgPhone)
    ELSE Valid

\* validateInput with details left out of the presence check
validateInput_DetailsOptional(d) ==
    IF Falsy(d.name) \/ Falsy(d.email) \/ Falsy(d.phone) \/ Falsy(d.service)
    THEN Invalid(MsgRequired)
    ELSE IF ~NameRegex(d.name.chars) THEN Invalid(MsgName)
    ELSE IF ~EmailRegex(d.email.chars) THEN Invalid(MsgEmail)
    ELSE IF d.phone.kind # "string" THEN TypeError
    ELSE IF ~PhoneRegex(PhoneStripped(d.phone.chars)) THEN Invalid(MsgPhone)
    ELSE Valid

\* validateInput without the email rule
validateInput_NoEmailRule(d) ==
    IF Falsy(d.name) \/ Falsy(d.email) \/ Falsy(d.phone)
         \/ Falsy(d.service) \/ Falsy(d.details)
    THEN Invalid(MsgRequired)
    ELSE IF ~NameRegex(d.name.chars) THEN Invalid(MsgName)
    ELSE IF d.phone.kind # "string" THEN TypeError
    ELSE IF ~PhoneRegex(PhoneStripped(d.phone.chars)) THEN Invalid(MsgPhone)
    ELSE Valid

validateInput(d) ==
    IF Falsy(d.name) \/ Falsy(d.email) \/ Falsy(d.phone)
         \/ Falsy(d.service) \/ Falsy(d.details)
    THEN Invalid(MsgRequired)
    ELSE IF ~NameRegex(d.name.chars) THEN Invalid(MsgName)
    ELSE IF ~EmailRegex(d.email.chars) THEN Invalid(MsgEmail)
    ELSE IF d.phone.kind # "string" THEN TypeError
    ELSE IF ~PhoneRegex(PhoneStripped(d.phone.chars)) THEN Invalid(MsgPhone)
    ELSE Valid

(***************************************************************************)
(* sanitizeHtml: the sanitize-html package with its default options.       *)
(* Text outside tags has its entities decoded and is then escaped          *)
(* (& < > become &amp; &lt; &gt;); a tag whose name is not allowed is      *)
(* discarded and its text kept; script, style, textarea and option are     *)
(* discarded with their content; an allowed tag is kept without its        *)
(* attributes and closed at the end of input when the input leaves it      *)
(* open.  The four entities amp, lt, gt and quot are decoded when written  *)
(* with their semicolon.                                                   *)
(***************************************************************************)
LowerCase(c) ==
    CASE c = "A" -> "a" [] c = "B" -> "b" [] c = "C" -> "c" [] c = "D" -> "d"
      [] c = "E" -> "e" [] c = "F" -> "f" [] c = "G" -> "g" [] c = "H" -> "h"
      [] c = "I" -> "i" [] c = "J" -> "j" [] c = "K" -> "k" [] c = "L" -> "l"
      [] c = "M" -> "m" [] c = "N" -> "n" [] c = "O" -> "o" [] c = "P" -> "p"
      [] c = "Q" -> "q" [] c = "R" -> "r" [] c = "S" -> "s" [] c = "T" -> "t"
      [] c = "U" -> "u" [] c = "V" -> "v" [] c = "W" -> "w" [] c = "X" -> "x"
      [] c = "Y" -> "y" [] c = "Z" -> "z" [] OTHER -> c

ToLower(s) == [i \in 1..Len(s) |-> LowerCase(s[i])]

NonTextTags ==
    {<<"s","c","r","i","p","t">>, <<"s","t","y","l","e">>,
     <<"t","e","x","t","a","r","e","a">>, <<"o","p","t","i","o","n">>}

VoidTags == {<<"b","r">>, <<"h","r">>, <<"w","b","r">>}

AllowedTags ==
    {<<"a">>, <<"b">>, <<"i">>, <<"p">>, <<"s">>, <<"u">>, <<"q">>,
     <<"e","m">>, <<"l","i">>, <<"o","l">>, <<"u","l">>, <<"t","d">>,
     <<"t","h">>, <<"t","r">>, <<"h","1">>, <<"h","2">>, <<"h","3">>,
     <<"d","i","v">>, <<"p","r","e">>, <<"s","u","b">>, <<"s","u","p">>,
     <<"c","o","d","e">>, <<"s","p","a","n">>, <<"t","a","b","l","e">>,
     <<"s","m","a","l","l">>, <<"s","t","r","o","n","g">>} \cup VoidTags

\* the least index >= i at which s holds ch, or 0
RECURSIVE IndexFrom(_, _, _)
IndexFrom(s, i, ch) ==
    IF i > Len(s) THEN 0
    ELSE IF s[i] = ch THEN i
    ELSE IndexFrom(s, i + 1, ch)

\* the last index of the run of tag-name characters that starts at i
RECURSIVE NameEnd(_, _)
NameEnd(s, i) ==
    IF i + 1 <= Len(s) /\ s[i + 1] \in (Letters \cup DigitChars)
    THEN NameEnd(s, i + 1)
    ELSE i

StartsWithAt(s, i, t) ==
    /\ i + Len(t) - 1 <= Len(s)
    /\ ToLower(SubSeq(s, i, i + Len(t) - 1)) = t

OpenTag(name) == <<"<">> \o name \o <<">">>
VoidTag(name) == <<"<">> \o name \o <<" ", "/", ">">>
CloseTag(name) == <<"<", "/">> \o name \o <<">">>

\* the closing tags of the open elements, innermost (last pushed) first
RECURSIVE CloseAll(_)
CloseAll(stack) ==
    IF stack = <<>> THEN <<>>
    ELSE CloseTag(stack[Len(stack)]) \o CloseAll(SubSeq(stack, 1, Len(stack) - 1))

\* the greatest index of stack holding name, or 0
LastOpen(stack, name) ==
    LET S == {k \in 1..Len(stack) : stack[k] = name}
    IN  IF S = {} THEN 0 ELSE CHOOSE k \in S : \A m \in S : m <= k

Entities ==
    { [name |-> <<"&","a","m","p",";">>, out |-> <<"&","a","m","p",";">>],
      [name |-> <<"&","l","t",";">>, out |-> <<"&","l","t",";">>],
      [name |-> <<"&","g","t",";">>, out |-> <<"&","g","t",";">>],
      [name |-> <<"&","q","u","o","t",";">>, out |-> <<"\"">>] }

\* the output for s from index i on; stack: the allowed elements still open;
\* skip: the non-text element whose content is being dropped, or <<>>
RECURSIVE Sanitize(_, _, _, _)
Sanitize(s, i, stack, skip) ==
    IF i > Len(s) THEN CloseAll(stack)
    ELSE IF skip # <<>> THEN
        IF StartsWithAt(s, i, CloseTag(skip))
        THEN Sanitize(s, i + Len(skip) + 3, stack, <<>>)
        ELSE Sanitize(s, i + 1, stack, skip)
    ELSE IF s[i] = "<" /\ i + 1 <= Len(s) /\ s[i + 1] \in Letters THEN
        LET e == NameEnd(s, i + 1)
            gt == IndexFrom(s, e + 1, ">")
            name == ToLower(SubSeq(s, i + 1, e))
        IN  IF gt = 0 THEN CloseAll(stack)
            ELSE IF name \in NonTextTags THEN Sanitize(s, gt + 1, stack, name)
            ELSE IF name \in VoidTags
                 THEN VoidTag(name) \o Sanitize(s, gt + 1, stack, <<>>)
            ELSE IF name \in AllowedTags
                 THEN OpenTag(name) \o Sanitize(s, gt + 1, Append(stack, name), <<>>)
            ELSE Sanitize(s, gt + 1, stack, <<>>)
    ELSE IF s[i] = "<" /\ i + 1 <= Len(s) /\ s[i + 1] = "/" THEN
        LET gt == IndexFrom(s, i + 2, ">")
            name == IF gt = 0 THEN <<>>
                    ELSE ToLower(Strip(SubSeq(s, i + 2, gt - 1), Whitespace))
            k == LastOpen(stack, name)
        IN  IF gt = 0 THEN CloseAll(stack)
            ELSE IF k = 0 THEN Sanitize(s, gt + 1, stack, <<>>)
            ELSE CloseAll(SubSeq(stack, k, Len(stack)))
                 \o Sanitize(s, gt + 1, SubSeq(stack, 1, k - 1), <<>>)
    ELSE IF s[i] = "<" /\ i + 1 <= Len(s) /\ s[i + 1] \in {"!", "?"} THEN
        LET gt == IndexFrom(s, i + 2, ">")
        IN  IF gt = 0 THEN CloseAll(stack)
            ELSE Sanitize(s, gt + 1, stack, <<>>)
    ELSE IF s[i] = "<" THEN <<"&","l","t",";">> \o Sanitize(s, i + 1, stack, <<>>)
    ELSE IF s[i] = ">" THEN <<"&","g","t",";">> \o Sanitize(s, i + 1, stack, <<>>)
    ELSE IF s[i] = "&" THEN
        LET E == {en \in Entities : StartsWithAt(s, i, en.name)}
        IN  IF E = {}
            THEN <<"&","a","m","p",";">> \o Sanitize(s, i + 1, stack, <<>>)
            ELSE LET en == CHOOSE x \in E : TRUE
                 IN  en.out \o Sanitize(s, i + Len(en.name), stack, <<>>)
    ELSE <<s[i]>> \o Sanitize(s, i + 1, stack, <<>>)

sanitizeHtml(v) == Sanitize(v.chars, 1, <<>>, <<>>)

(***************************************************************************)
(* Request bodies.                                                         *)
(***************************************************************************)
Fields == {"name", "email", "phone", "service", "details"}

Body(n, e, p, s, d) ==
    [name |-> n, email |-> e, phone |-> p, service |-> s, details |-> d]

NoBody == Body(Undefined, Undefined, Undefined, Undefined, Undefined)

JaneDoe == <<"J","a","n","e"," ","D","o","e">>
JaneEmail == <<"j","a","n","e","@","e","x","a","m","p","l","e",".","c","o","m">>
AmpEmail == <<"a","&","b","@","c",".","d","e">>
NotAnEmail == <<"n","o","t","-","a","n","-","e","m","a","i","l">>
JanePhone == <<"5","5","5","-","1","2","3","-","4","5","6","7">>
ParenPhone == <<"(","5","5","5",")"," ","1","2","3","-","4","5","6","7">>
ShortPhone == <<"1","2","3">>
Moving == <<"M","o","v","i","n","g">>
ThreeBoxes == <<"3"," ","b","o","x","e","s">>
BoldBoxes == <<"<","b",">","3"," ","<"," ","4">>
ScriptOnly ==
    <<"<","s","c","r","i","p","t",">","x","<","/","s","c","r","i","p","t",">">>
PhoneNumber == <<"5","5","5","1","2","3","4","5","6","7">>
ScriptEmail == <<"a","<","s","c","r","i","p","t",">","@","b",".","c","d">>

\* the bodies the requests of the workflow carry
RequestBodies ==
    { Body(Str(JaneDoe), Str(JaneEmail), Str(JanePhone), Str(Moving), Str(ThreeBoxes)),
      Body(Str(JaneDoe), Str(AmpEmail), Str(ParenPhone), Str(Moving), Str(BoldBoxes)),
      Body(Str(JaneDoe), Str(NotAnEmail), Str(JanePhone), Str(Moving), Str(ThreeBoxes)),
      Body(Str(<<"J","4">>), Str(JaneEmail), Str(ShortPhone), Str(Moving), Str(ThreeBoxes)),
      Body(Str(JaneDoe), Str(JaneEmail), Str(JanePhone), Str(Moving), Undefined),
      Body(Str(JaneDoe), Str(JaneEmail), Num(PhoneNumber), Str(Moving), Str(ThreeBoxes)),
      Body(Str(JaneDoe), Str(ScriptEmail), Str(JanePhone), Str(Moving), Str(ScriptOnly)) }

(***************************************************************************)
(* Responses, mail and rows.                                               *)
(***************************************************************************)
Json(status, key, text) == [status |-> status, key |-> key, text |-> text]

MsgSaveFailed == "Failed to save order."
MsgSuccess == "Order submitted successfully!"
MsgEmailFailed == "Order saved, but failed to send email."
MsgCustomerFailed == "Order saved, but failed to send customer confirmation."

AdminAddress ==
    <<"t","r","e","k","u","r","a","y","@","g","m","a","i","l",".","c","o","m">>
SubjectAdmin == "New Order from Dziquist Website"
SubjectCustomer == "Order Confirmation - Dziquist Transport"

NoFields == [f \in Fields |-> <<>>]
NoMail == [state |-> "none", to |-> <<>>, subject |-> "", text |-> NoFields]

\* mailOptions / mailOptionsAdmin: every sanitized field is interpolated
\* (the Timestamp line of the text is left out)
mailOptionsAdmin(s) ==
    [state |-> "pending", to |-> AdminAddress, subject |-> SubjectAdmin, text |-> s]

\* mailOptionsCustomer: name, service, details and phone are interpolated
mailOptionsCustomer(s) ==
    [state |-> "pending", to |-> s.email, subject |-> SubjectCustomer,
     text |-> [s EXCEPT !.email = <<>>]]

\* the row the store makes of an INSERT: id is AUTOINCREMENT; req records
\* which request issued the INSERT
Row(r, args) ==
    [id |-> Len(rows) + 1, req |-> r, name |-> args[1], email |-> args[2],
     phone |-> args[3], service |-> args[4], details |-> args[5]]

RowsOf(r) == {i \in 1..Len(rows) : rows[i].req = r}

(***************************************************************************)
(* The workflow.                                                           *)
(***************************************************************************)
Init ==
    /\ deployment \in {"server.js", "part_000"}
    /\ pc = [r \in Requests |-> "idle"]
    /\ body = [r \in Requests |-> NoBody]
    /\ sanitized = [r \in Requests |-> NoFields]
    /\ insertArgs = [r \in Requests |-> <<>>]
    /\ rows = <<>>
    /\ adminMail = [r \in Requests |-> NoMail]
    /\ customerMail = [r \in Requests |-> NoMail]
    /\ responses = [r \in Requests |-> <<>>]
    /\ errlog = [r \in Requests |-> {}]
    /\ data = NoBody
    /\ validation = NotCalled

\* SanitizedFields with the sanitizeHtml calls forgotten
SanitizedFields_Raw(b) == [f \in Fields |-> b[f].chars]

\* sanitizedName .. sanitizedDetails
SanitizedFields(b) == [f \in Fields |-> sanitizeHtml(b[f])]

\* InsertParams with the email and phone parameters in each other's place
InsertParams_EmailPhoneSwapped(s) == <<s.name, s.phone, s.email, s.service, s.details>>

\* the parameter array of the INSERT
InsertParams(s) == <<s.name, s.email, s.phone, s.service, s.details>>

\* RejectInvalid without its return: the 400 is written and the handler goes on
RejectInvalid_NoReturn(r, b, v) ==
    /\ pc' = [pc EXCEPT ![r] = "inserting"]
    /\ responses' = [responses EXCEPT ![r] = Append(@, Json(400, "error", v.error))]
    /\ sanitized' = [sanitized EXCEPT ![r] = [f \in Fields |-> sanitizeHtml(b[f])]]
    /\ insertArgs' = [insertArgs EXCEPT
           ![r] = <<sanitizeHtml(b.name), sanitizeHtml(b.email), sanitizeHtml(b.phone),
                    sanitizeHtml(b.service), sanitizeHtml(b.details)>>]

\* if (!validation.isValid) return res.status(400).json({error})
RejectInvalid(r, b, v) ==
    /\ pc' = [pc EXCEPT ![r] = "rejected"]
    /\ responses' = [responses EXCEPT ![r] = Append(@, Json(400, "error", v.error))]
    /\ UNCHANGED <<sanitized, insertArgs>>

\* the five sanitizeHtml calls and the db.run call
SanitizeAndInsert(r, b) ==
    /\ pc' = [pc EXCEPT ![r] = "inserting"]
    /\ sanitized' = [sanitized EXCEPT ![r] = SanitizedFields(b)]
    /\ insertArgs' = [insertArgs EXCEPT ![r] = InsertParams(SanitizedFields(b))]
    /\ UNCHANGED responses

\* the page express answers with when a route handler throws
MsgUncaught == "TypeError: phone.replace is not a function"

\* validateInput threw: the handler is left before it writes any response,
\* and express, which called it, answers 500 with its error page
HandlerThrew(r) ==
    /\ pc' = [pc EXCEPT ![r] = "threw"]
    /\ responses' = [responses EXCEPT ![r] = Append(@, Json(500, "html", MsgUncaught))]
    /\ UNCHANGED <<sanitized, insertArgs>>

\* a global lock: Post taking a request only when no other is in progress
Post_OneAtATime(r) ==
    /\ pc[r] = "idle"
    /\ \A q \in Requests \ {r} : pc[q] \notin {"inserting", "notifying"}
    /\ \E b \in RequestBodies :
        LET v == validateInput(b)
        IN  /\ body' = [body EXCEPT ![r] = b]
            /\ IF v.threw THEN HandlerThrew(r)
               ELSE IF ~v.isValid THEN RejectInvalid(r, b, v)
               ELSE SanitizeAndInsert(r, b)
    /\ UNCHANGED <<deployment, rows, adminMail, customerMail, errlog, data, validation>>

\* app.post('/api/orders') up to the db.run call
Post(r) ==
    /\ pc[r] = "idle"
    /\ \E b \in RequestBodies :
        LET v == validateInput(b)
        IN  /\ body' = [body EXCEPT ![r] = b]
            /\ IF v.threw THEN HandlerThrew(r)
               ELSE IF ~v.isValid THEN RejectInvalid(r, b, v)
               ELSE SanitizeAndInsert(r, b)
    /\ UNCHANGED <<deployment, rows, adminMail, customerMail, errlog, data, validation>>

\* InsertFailed without its return: the 500 is written and the mail is sent
InsertFailed_FallsThrough(r) ==
    /\ errlog' = [errlog EXCEPT ![r] = @ \cup {"Database insert error"}]
    /\ responses' = [responses EXCEPT
           ![r] = Append(@, Json(500, "error", MsgSaveFailed))]
    /\ adminMail' = [adminMail EXCEPT ![r] = mailOptionsAdmin(sanitized[r])]
    /\ pc' = [pc EXCEPT ![r] = "notifying"]
    /\ UNCHANGED <<rows, customerMail>>

\* if (err): the store reports a failed INSERT, no row was made
InsertFailed(r) ==
    /\ errlog' = [errlog EXCEPT ![r] = @ \cup {"Database insert error"}]
    /\ responses' = [responses EXCEPT
           ![r] = Append(@, Json(500, "error", MsgSaveFailed))]
    /\ pc' = [pc EXCEPT ![r] = "failed"]
    /\ UNCHANGED <<rows, adminMail, customerMail>>

\* InsertedThenSend answering as soon as the mail is handed to the transport
InsertedThenSend_RespondsAtDispatch(r) ==
    /\ rows' = Append(rows, Row(r, insertArgs[r]))
    /\ adminMail' = [adminMail EXCEPT ![r] = mailOptionsAdmin(sanitized[r])]
    /\ responses' = [responses EXCEPT
           ![r] = Append(@, Json(200, "message", MsgSuccess))]
    /\ pc' = [pc EXCEPT ![r] = "notifying"]
    /\ UNCHANGED <<customerMail, errlog>>

\* InsertedThenSend after an INSERT that was issued twice
InsertedThenSend_InsertsTwice(r) ==
    /\ rows' = Append(Append(rows, Row(r, insertArgs[r])),
                      [Row(r, insertArgs[r]) EXCEPT !.id = Len(rows) + 2])
    /\ adminMail' = [adminMail EXCEPT ![r] = mailOptionsAdmin(sanitized[r])]
    /\ pc' = [pc EXCEPT ![r] = "notifying"]
    /\ UNCHANGED <<customerMail, responses, errlog>>

\* server.js, INSERT done: the row is in the table, the admin mail is handed
\* to the transport and the handler waits for its callback
InsertedThenSend(r) ==
    /\ rows' = Append(rows, Row(r, insertArgs[r]))
    /\ adminMail' = [adminMail EXCEPT ![r] = mailOptionsAdmin(sanitized[r])]
    /\ pc' = [pc EXCEPT ![r] = "notifying"]
    /\ UNCHANGED <<customerMail, responses, errlog>>

\* server.js: the db.run callback
InsertCallback(r) ==
    /\ deployment = "server.js"
    /\ pc[r] = "inserting"
    /\ \E err \in BOOLEAN : IF err THEN InsertFailed(r) ELSE InsertedThenSend(r)
    /\ UNCHANGED <<deployment, body, sanitized, insertArgs, data, validation>>

\* SendMailFailed answering with a server error
SendMailFailed_Status500(r) ==
    /\ adminMail' = [adminMail EXCEPT ![r].state = "failed"]
    /\ errlog' = [errlog EXCEPT ![r] = @ \cup {"Email sending error"}]
    /\ responses' = [responses EXCEPT
           ![r] = Append(@, Json(500, "error", MsgEmailFailed))]
    /\ pc' = [pc EXCEPT ![r] = "responded"]
    /\ UNCHANGED <<rows, customerMail>>

\* server.js, if (error) of the sendMail callback
SendMailFailed(r) ==
    /\ adminMail' = [adminMail EXCEPT ![r].state = "failed"]
    /\ errlog' = [errlog EXCEPT ![r] = @ \cup {"Email sending error"}]
    /\ responses' = [responses EXCEPT
           ![r] = Append(@, Json(200, "message", MsgEmailFailed))]
    /\ pc' = [pc EXCEPT ![r] = "responded"]
    /\ UNCHANGED <<rows, customerMail>>

\* server.js, the mail was sent
SendMailSucceeded(r) ==
    /\ adminMail' = [adminMail EXCEPT ![r].state = "sent"]
    /\ responses' = [responses EXCEPT
           ![r] = Append(@, Json(200, "message", MsgSuccess))]
    /\ pc' = [pc EXCEPT ![r] = "responded"]
    /\ UNCHANGED <<rows, customerMail, errlog>>

\* server.js: the sendMail callback writes the response
SendMailCallback(r) ==
    /\ deployment = "server.js"
    /\ adminMail[r].state = "pending"
    /\ \E error \in BOOLEAN :
        IF error THEN SendMailFailed(r) ELSE SendMailSucceeded(r)
    /\ UNCHANGED <<deployment, body, sanitized, insertArgs, data, validation>>

\* InsertedThenSendBoth answering as soon as the mails are handed over
InsertedThenSendBoth_RespondsAtDispatch(r) ==
    /\ rows' = Append(rows, Row(r, insertArgs[r]))
    /\ adminMail' = [adminMail EXCEPT ![r] = mailOptionsAdmin(sanitized[r])]
    /\ customerMail' = [customerMail EXCEPT ![r] = mailOptionsCustomer(sanitized[r])]
    /\ responses' = [responses EXCEPT
           ![r] = Append(@, Json(200, "message", MsgSuccess))]
    /\ pc' = [pc EXCEPT ![r] = "notifying"]
    /\ UNCHANGED errlog

\* InsertedThenSendBoth without the customer sendMail call
InsertedThenSendBoth_AdminOnly(r) ==
    /\ rows' = Append(rows, Row(r, insertArgs[r]))
    /\ adminMail' = [adminMail EXCEPT ![r] = mailOptionsAdmin(sanitized[r])]
    /\ pc' = [pc EXCEPT ![r] = "notifying"]
    /\ UNCHANGED <<customerMail, responses, errlog>>

\* part_000, INSERT done: the row is in the table and both mails are handed
\* to the transport, the admin mail first
InsertedThenSendBoth(r) ==
    /\ rows' = Append(rows, Row(r, insertArgs[r]))
    /\ adminMail' = [adminMail EXCEPT ![r] = mailOptionsAdmin(sanitized[r])]
    /\ customerMail' = [customerMail EXCEPT ![r] = mailOptionsCustomer(sanitized[r])]
    /\ pc' = [pc EXCEPT ![r] = "notifying"]
    /\ UNCHANGED <<responses, errlog>>

\* part_000: the db.run callback
InsertCallbackCustomer(r) ==
    /\ deployment = "part_000"
    /\ pc[r] = "inserting"
    /\ \E err \in BOOLEAN : IF err THEN InsertFailed(r) ELSE InsertedThenSendBoth(r)
    /\ UNCHANGED <<deployment, body, sanitized, insertArgs, data, validation>>

\* AdminMailFailed answering the request the way server.js does
AdminMailFailed_Responds(r) ==
    /\ adminMail' = [adminMail EXCEPT ![r].state = "failed"]
    /\ errlog' = [errlog EXCEPT ![r] = @ \cup {"Admin email sending error"}]
    /\ responses' = [responses EXCEPT
           ![r] = Append(@, Json(200, "message", MsgEmailFailed))]
    /\ UNCHANGED <<pc, rows, customerMail>>

\* part_000, if (error) of the admin sendMail callback: logged only
AdminMailFailed(r) ==
    /\ adminMail' = [adminMail EXCEPT ![r].state = "failed"]
    /\ errlog' = [errlog EXCEPT ![r] = @ \cup {"Admin email sending error"}]
    /\ UNCHANGED <<pc, rows, customerMail, responses>>

\* part_000: the callback of the admin sendMail
AdminMailCallback(r) ==
    /\ deployment = "part_000"
    /\ adminMail[r].state = "pending"
    /\ \E error \in BOOLEAN :
        IF error THEN AdminMailFailed(r)
        ELSE /\ adminMail' = [adminMail EXCEPT ![r].state = "sent"]
             /\ UNCHANGED <<pc, rows, customerMail, responses, errlog>>
    /\ UNCHANGED <<deployment, body, sanitized, insertArgs, data, validation>>

\* CustomerMailFailed answering with the success message
CustomerMailFailed_SaysSuccess(r) ==
    /\ customerMail' = [customerMail EXCEPT ![r].state = "failed"]
    /\ errlog' = [errlog EXCEPT ![r] = @ \cup {"Customer email sending error"}]
    /\ responses' = [responses EXCEPT
           ![r] = Append(@, Json(200, "message", MsgSuccess))]
    /\ pc' = [pc EXCEPT ![r] = "responded"]
    /\ UNCHANGED <<rows, adminMail>>

\* CustomerMailFailed deleting the order it could not confirm
CustomerMailFailed_Rollback(r) ==
    /\ customerMail' = [customerMail EXCEPT ![r].state = "failed"]
    /\ errlog' = [errlog EXCEPT ![r] = @ \cup {"Customer email sending error"}]
    /\ responses' = [responses EXCEPT
           ![r] = Append(@, Json(200, "message", MsgCustomerFailed))]
    /\ pc' = [pc EXCEPT ![r] = "responded"]
    /\ rows' = SelectSeq(rows, LAMBDA x : x.req # r)
    /\ UNCHANGED adminMail

\* part_000, if (error) of the customer sendMail callback
CustomerMailFailed(r) ==
    /\ customerMail' = [customerMail EXCEPT ![r].state = "failed"]
    /\ errlog' = [errlog EXCEPT ![r] = @ \cup {"Customer email sending error"}]
    /\ responses' = [responses EXCEPT
           ![r] = Append(@, Json(200, "message", MsgCustomerFailed))]
    /\ pc' = [pc EXCEPT ![r] = "responded"]
    /\ UNCHANGED <<rows, adminMail>>

\* part_000, the customer mail was sent
CustomerMailSucceeded(r) ==
    /\ customerMail' = [customerMail EXCEPT ![r].state = "sent"]
    /\ responses' = [responses EXCEPT
           ![r] = Append(@, Json(200, "message", MsgSuccess))]
    /\ pc' = [pc EXCEPT ![r] = "responded"]
    /\ UNCHANGED <<rows, adminMail, errlog>>

\* part_000: the callback of the customer sendMail writes the response
CustomerMailCallback(r) ==
    /\ deployment = "part_000"
    /\ customerMail[r].state = "pending"
    /\ \E error \in BOOLEAN :
        IF error THEN CustomerMailFailed(r) ELSE CustomerMailSucceeded(r)
    /\ UNCHANGED <<deployment, body, sanitized, insertArgs, data, validation>>

Next ==
    \/ \E r \in Requests : Post(r)
    \/ \E r \in Requests : InsertCallback(r)
    \/ \E r \in Requests : SendMailCallback(r)
    \/ \E r \in Requests : InsertCallbackCustomer(r)
    \/ \E r \in Requests : AdminMailCallback(r)
    \/ \E r \in Requests : CustomerMailCallback(r)

Spec == Init /\ [][Next]_vars

\* the store calls every db.run callback and the transport every sendMail
\* callback in the end; nothing says a request arrives
FairSpec ==
    /\ Spec
    /\ \A r \in Requests :
           /\ WF_vars(InsertCallback(r))
           /\ WF_vars(SendMailCallback(r))
           /\ WF_vars(InsertCallbackCustomer(r))
           /\ WF_vars(AdminMailCallback(r))
           /\ WF_vars(CustomerMailCallback(r))

(***************************************************************************)
(* validateInput on its own, over a product of field values.               *)
(***************************************************************************)
Digits(n) == [i \in 1..n |-> "5"]

NameInputs ==
    {Undefined, Str(<<>>), Str(JaneDoe), Str(<<"J","4">>), Str(<<"O","'","B">>)}

EmailInputs ==
    {Undefined, Str(<<>>), Str(JaneEmail), Str(AmpEmail), Str(NotAnEmail),
     Str(<<"a","@","b">>), Str(<<"a"," ","b","@","c",".","d">>)}

PhoneInputs ==
    {Undefined, Str(<<>>), Num(PhoneNumber), Str(JanePhone), Str(ParenPhone),
     Str(ShortPhone), Str(<<"5","5","5","1","2","3","4","5","6","x">>)}
    \cup {Str(Digits(n)) : n \in (PhoneMinDigits - 1)..MaxDigits}
    \cup {Str(<<"+">> \o Digits(n)) : n \in (PhoneMinDigits - 1)..MaxDigits}

ServiceInputs == {Undefined, Str(<<>>), Str(Moving)}

DetailsInputs == {Undefined, Str(<<>>), Str(ThreeBoxes), Str(ScriptOnly)}

ValidateInputs ==
    {Body(n, e, p, s, d) : n \in NameInputs, e \in EmailInputs, p \in PhoneInputs,
                           s \in ServiceInputs, d \in DetailsInputs}

InitValidate ==
    /\ deployment \in {"server.js", "part_000"}
    /\ pc = [r \in Requests |-> "idle"]
    /\ body = [r \in Requests |-> NoBody]
    /\ sanitized = [r \in Requests |-> NoFields]
    /\ insertArgs = [r \in Requests |-> <<>>]
    /\ rows = <<>>
    /\ adminMail = [r \in Requests |-> NoMail]
    /\ customerMail = [r \in Requests |-> NoMail]
    /\ responses = [r \in Requests |-> <<>>]
    /\ errlog = [r \in Requests |-> {}]
    /\ data \in ValidateInputs
    /\ validation = NotCalled

\* const validation = validateInput(req.body)
Validate ==
    /\ validation = NotCalled
    /\ validation' = validateInput(data)
    /\ UNCHANGED <<deployment, pc, body, sanitized, insertArgs, rows, adminMail,
                   customerMail, responses, errlog, data>>

SpecValidate == InitValidate /\ [][Validate]_vars

(***************************************************************************)
(* Properties.                                                             *)
(***************************************************************************)
Completed == {"sent", "failed"}
Inserted(r) == RowsOf(r) # {}
Success == <<Json(200, "message", MsgSuccess)>>

\* C1: a request whose body validateInput rejects is answered 400 with the
\* reason validateInput returned, and at no later time is an INSERT issued,
\* a row stored or a mail (admin or customer) attempted for it.
C1_InvalidRejected ==
    \A r \in Requests :
        LET v == validateInput(body[r])
        IN  (pc[r] # "idle" /\ ~v.threw /\ ~v.isValid) =>
                /\ responses[r] = <<Json(400, "error", v.error)>>
                /\ insertArgs[r] = <<>>
                /\ ~Inserted(r)
                /\ adminMail[r].state = "none"
                /\ customerMail[r].state = "none"

C1_Witness ==
    \E r, q \in Requests :
        /\ body[r].email = Str(NotAnEmail)
        /\ responses[r] = <<Json(400, "error", MsgEmail)>>
        /\ pc[q] = "responded"

\* C2: a valid request whose INSERT the store reports as failed is answered
\* 500 "Failed to save order.", has no row and no notification attempt.
C2_InsertFailure ==
    \A r \in Requests :
        "Database insert error" \in errlog[r] =>
            /\ validateInput(body[r]).isValid
            /\ responses[r] = <<Json(500, "error", MsgSaveFailed)>>
            /\ ~Inserted(r)
            /\ adminMail[r].state = "none"
            /\ customerMail[r].state = "none"

C2_Witness ==
    \E r, q \in Requests :
        /\ "Database insert error" \in errlog[r]
        /\ pc[r] = "failed"
        /\ pc[q] = "responded"

\* two handled requests with the same body, both inserted, the same customer
\* send outcome, the admin send succeeded for r1 and failed for r2
AdminOutcomeDiffers(r1, r2) ==
    /\ body[r1] = body[r2]
    /\ Inserted(r1) /\ Inserted(r2)
    /\ pc[r1] = "responded" /\ pc[r2] = "responded"
    /\ customerMail[r1].state = customerMail[r2].state
    /\ adminMail[r1].state = "sent"
    /\ adminMail[r2].state = "failed"

C4_CustomerOutcomeDecides ==
    deployment = "part_000" =>
        \A r \in Requests :
            Inserted(r) =>
                /\ customerMail[r].state = "failed" =>
                       responses[r] = <<Json(200, "message", MsgCustomerFailed)>>
                /\ customerMail[r].state = "sent" => responses[r] = Success

C4_Witness ==
    \E r, q \in Requests :
        /\ customerMail[r].state = "failed" /\ adminMail[r].state = "sent"
        /\ customerMail[q].state = "sent" /\ adminMail[q].state = "failed"

\* C5: in both deployments a valid submission whose INSERT and every mail
\* send succeeded has exactly one row, holding the sanitized values, an
\* admin mail attempt was made, and the response is 200 "Order submitted
\* successfully!".
C5_FullSuccess ==
    \A r \in Requests :
        ( /\ pc[r] = "responded"
          /\ adminMail[r].state \in {"none", "sent"}
          /\ customerMail[r].state \in {"none", "sent"} ) =>
            /\ validateInput(body[r]).isValid
            /\ Cardinality(RowsOf(r)) = 1
            /\ \A i \in RowsOf(r) :
                   \A f \in Fields : rows[i][f] = sanitizeHtml(body[r][f])
            /\ adminMail[r].state = "sent"
            /\ adminMail[r].to = AdminAddress
            /\ responses[r] = Success

C5_Witness ==
    \E r \in Requests :
        /\ pc[r] = "responded"
        /\ body[r].email = Str(AmpEmail)
        /\ adminMail[r].state = "sent"
        /\ customerMail[r].state \in {"none", "sent"}
        /\ \E i \in RowsOf(r) : rows[i].email # body[r].email.chars

\* C6 as stated: in server.js the success response is emitted once the
\* admin send has been dispatched, without waiting for it to complete.
C6_RespondsAtDispatch ==
    deployment = "server.js" =>
        \A r \in Requests : adminMail[r].state = "pending" => responses[r] = Success

\* C6 amended: in server.js the response is written by the admin send's
\* callback: after a successful INSERT the request has a response exactly
\* when its admin send has completed, so a request whose admin send never
\* completes gets no response.
C6_RespondsAtCompletion ==
    deployment = "server.js" =>
        \A r \in Requests :
            Inserted(r) =>
                /\ responses[r] # <<>> <=> adminMail[r].state \in Completed
                /\ adminMail[r].state = "pending" => responses[r] = <<>>

C6_Witness ==
    /\ deployment = "server.js"
    /\ \E r, q \in Requests :
           /\ Inserted(r) /\ adminMail[r].state = "pending" /\ responses[r] = <<>>
           /\ pc[q] = "responded"

\* C7: in part_000 a request whose INSERT succeeded has a response exactly
\* when its customer send has completed, whatever the state of its admin
\* send (pending, sent or failed).
C7_ResponseAfterCustomerSend ==
    deployment = "part_000" =>
        \A r \in Requests :
            Inserted(r) =>
                (responses[r] # <<>> <=> customerMail[r].state \in Completed)

C7_Witness ==
    \E r, q \in Requests :
        /\ responses[r] # <<>> /\ adminMail[r].state = "pending"
        /\ responses[q] = <<>> /\ adminMail[q].state \in Completed

\* C8: no step removes or changes a stored row, and after a failed customer
\* send or a failed admin send the request's row is still in the table.
C8_RowsNeverChange ==
    [][ /\ Len(rows') >= Len(rows)
        /\ \A i \in 1..Len(rows) : rows'[i] = rows[i]
        /\ \A r \in Requests :
               (customerMail'[r].state = "failed" \/ adminMail'[r].state = "failed")
                   => \E i \in 1..Len(rows') : rows'[i].req = r ]_vars

C8_Witness ==
    \E r \in Requests :
        /\ customerMail[r].state = "failed"
        /\ responses[r] = <<Json(200, "message", MsgCustomerFailed)>>
        /\ \E i \in RowsOf(r) : rows[i].details = sanitized[r].details

\* C9: a request whose INSERT succeeded only ever gets status 200, and a
\* request that got status 200 has a row; 400 and 500 go to requests with
\* no row.
C9_StoredIffStatus200 ==
    \A r \in Requests :
        \A i \in 1..Len(responses[r]) :
            /\ responses[r][i].status \in {200, 400, 500}
            /\ responses[r][i].status = 200 <=> Inserted(r)

C9_Witness ==
    \E r, q \in Requests :
        /\ Inserted(r) /\ adminMail[r].state = "failed" /\ responses[r] # <<>>
        /\ ~Inserted(q) /\ responses[q] # <<>>

\* the rules of validateInput, each on its own
StringOrAbsent(v) == v.kind \in {"string", "undefined"}
NonEmpty(v) == v.kind = "string" /\ v.chars # <<>>
RuleViolated(d, k) ==
    CASE k = 1 -> \E f \in Fields : ~NonEmpty(d[f])
      [] k = 2 -> ~(d.name.kind = "string" /\ NameRegex(d.name.chars))
      [] k = 3 -> ~(d.email.kind = "string" /\ EmailRegex(d.email.chars))
      [] k = 4 -> ~(d.phone.kind = "string"
                    /\ PhoneRegex(PhoneStripped(d.phone.chars)))
RuleMessage(k) ==
    CASE k = 1 -> MsgRequired [] k = 2 -> MsgName [] k = 3 -> MsgEmail
      [] k = 4 -> MsgPhone
ViolatedRules(d) == {k \in 1..4 : RuleViolated(d, k)}

\* C10: for a body whose fields are strings or absent, validateInput
\* returns valid exactly when no rule is violated, and otherwise the message
\* of the first violated rule in the order presence, name, email, phone.
C10_FirstViolatedRule ==
    (validation # NotCalled /\ \A f \in Fields : StringOrAbsent(data[f])) =>
        LET V == ViolatedRules(data)
        IN  /\ ~validation.threw
            /\ validation.isValid <=> V = {}
            /\ V # {} => \E k \in V :
                   /\ \A m \in V : k <= m
                   /\ validation.error = RuleMessage(k)

C10_Witness ==
    /\ validation = Invalid(MsgName)
    /\ ViolatedRules(data) = {2, 3, 4}


\* C11: when at least one of the five fields is missing or empty,
\* validateInput returns invalid with "All fields are required.", whichever
\* fields are missing and whatever the other fields hold.
MissingOrEmpty(v) == v.kind = "undefined" \/ (v.kind = "string" /\ v.chars = <<>>)

C11_PresenceFirst ==
    (validation # NotCalled /\ \E f \in Fields : MissingOrEmpty(data[f])) =>
        validation = Invalid(MsgRequired)

C11_Witness ==
    /\ validation = Invalid(MsgRequired)
    /\ {f \in Fields : MissingOrEmpty(data[f])} = {"details"}
    /\ data.name = Str(JaneDoe)
    /\ data.email = Str(JaneEmail)
    /\ data.phone = Str(JanePhone)

\* the phone rule as the specification words it: drop every hyphen,
\* parenthesis and whitespace character; what is left is an optional
\* leading + followed by 10 to 15 digits
PhoneRemainder(s) ==
    SelectSeq(s, LAMBDA c : c \notin {"-", "(", ")", " ", "\t", "\n", "\r"})
PhoneWellFormed(s) ==
    LET rem == PhoneRemainder(s)
        ds == IF Len(rem) >= 1 /\ rem[1] = "+" THEN SubSeq(rem, 2, Len(rem)) ELSE rem
    IN  /\ Len(ds) \in 10..15
        /\ \A i \in 1..Len(ds) : ds[i] \in DigitChars

\* C12: when the five fields are non-empty strings and name and email pass
\* their rules, validateInput accepts exactly when the phone is well formed
\* and otherwise fails with "Invalid phone number.".
C12_PhoneRule ==
    ( /\ validation # NotCalled
      /\ \A f \in Fields : NonEmpty(data[f])
      /\ NameRegex(data.name.chars)
      /\ EmailRegex(data.email.chars) ) =>
        IF PhoneWellFormed(data.phone.chars)
        THEN validation = Valid
        ELSE validation = Invalid(MsgPhone)

C12_Witness ==
    /\ validation = Valid
    /\ data.phone = Str(ParenPhone)


\* C13: whatever is handed to the INSERT, stored in a row, interpolated into
\* the admin or the customer mail, or used as the customer mail's recipient
\* is the output of sanitizeHtml on the corresponding raw field.
C13_OnlySanitizedValues ==
    \A r \in Requests :
        LET clean == [f \in Fields |-> sanitizeHtml(body[r][f])]
        IN  /\ insertArgs[r] # <<>> =>
                   insertArgs[r] = <<clean.name, clean.email, clean.phone,
                                     clean.service, clean.details>>
            /\ \A i \in RowsOf(r) : \A f \in Fields : rows[i][f] = clean[f]
            /\ adminMail[r].state # "none" =>
                   \A f \in Fields : adminMail[r].text[f] = clean[f]
            /\ customerMail[r].state # "none" =>
                   /\ customerMail[r].to = clean.email
                   /\ \A f \in {"name", "service", "details", "phone"} :
                          customerMail[r].text[f] = clean[f]

C13_Witness ==
    \E r \in Requests :
        /\ body[r].email = Str(AmpEmail)
        /\ customerMail[r].state = "sent"
        /\ customerMail[r].to # body[r].email.chars
        /\ adminMail[r].state = "sent"
        /\ adminMail[r].text.details # body[r].details.chars
        /\ \E i \in RowsOf(r) : rows[i].details # body[r].details.chars

\* the number of sendMail calls made for request r
Attempts(r) ==
    Cardinality({k \in {"admin", "customer"} :
        IF k = "admin" THEN adminMail[r].state # "none"
        ELSE customerMail[r].state # "none"})

\* C14: a request whose INSERT succeeded has exactly one notification
\* attempt (admin) in server.js and exactly two (admin and customer) in
\* part_000, whatever the state or outcome of the admin attempt.
C14_NotificationAttempts ==
    \A r \in Requests :
        Inserted(r) =>
            /\ adminMail[r].state # "none"
            /\ deployment = "server.js" => Attempts(r) = 1
            /\ deployment = "part_000" =>
                   Attempts(r) = 2 /\ customerMail[r].state # "none"

C14_Witness ==
    /\ deployment = "part_000"
    /\ \E r, q \in Requests :
           /\ Inserted(r) /\ adminMail[r].state = "pending"
           /\ customerMail[r].state = "pending"
           /\ Inserted(q) /\ adminMail[q].state = "failed"
           /\ customerMail[q].state = "sent"

\* the db.run callback of request r ran without an error
InsertSucceeded(r) == pc[r] \in {"notifying", "responded"}

\* C15: under every interleaving of the requests the table has one row per
\* request whose INSERT succeeded, at most one row per request, and each row
\* holds the sanitized fields of the one request that inserted it.
C15_OneRowPerInsert ==
    /\ Len(rows) = Cardinality({r \in Requests : InsertSucceeded(r)})
    /\ \A r \in Requests : Cardinality(RowsOf(r)) <= 1
    /\ \A i \in 1..Len(rows) :
           /\ rows[i].id = i
           /\ rows[i].req \in Requests
           /\ \A f \in Fields : rows[i][f] = sanitized[rows[i].req][f]

C15_Witness ==
    /\ Len(rows) = 2
    /\ rows[1].req = 2
    /\ rows[2].req = 1
    /\ rows[1].email # rows[2].email


\* the handler or callbacks of request r
StepOf(r) ==
    \/ Post(r)
    \/ InsertCallback(r)
    \/ SendMailCallback(r)
    \/ InsertCallbackCustomer(r)
    \/ AdminMailCallback(r)
    \/ CustomerMailCallback(r)

\* the response request r has, from r's own body and outcomes alone
OwnResponse(r) ==
    LET v == validateInput(body[r])
        decides == IF deployment = "server.js" THEN adminMail[r] ELSE customerMail[r]
        failedMsg == IF deployment = "server.js" THEN MsgEmailFailed
                     ELSE MsgCustomerFailed
    IN  IF pc[r] = "idle" THEN <<>>
        ELSE IF v.threw THEN <<Json(500, "html", MsgUncaught)>>
        ELSE IF ~v.isValid THEN <<Json(400, "error", v.error)>>
        ELSE IF "Database insert error" \in errlog[r]
             THEN <<Json(500, "error", MsgSaveFailed)>>
        ELSE IF decides.state = "sent" THEN Success
        ELSE IF decides.state = "failed" THEN <<Json(200, "message", failedMsg)>>
        ELSE <<>>

\* C16: whatever state the other requests are in, a request can take its
\* next step (be handled, have its INSERT reported, have each of its sends
\* reported), and its response follows from its own validation, INSERT and
\* send outcomes alone.
C16_RequestsDoNotBlock ==
    \A r \in Requests :
        /\ pc[r] = "idle" => ENABLED Post(r)
        /\ pc[r] = "inserting" => ENABLED (InsertCallback(r) \/ InsertCallbackCustomer(r))
        /\ adminMail[r].state = "pending" =>
               ENABLED (SendMailCallback(r) \/ AdminMailCallback(r))
        /\ customerMail[r].state = "pending" => ENABLED CustomerMailCallback(r)
        /\ responses[r] = OwnResponse(r)

C16_Witness ==
    \E a, b \in Requests :
        /\ pc[a] = "inserting"
        /\ body[b] = body[a]
        /\ pc[b] = "responded"
        /\ responses[b] = Success

\* C17: a request never has more than one response, and in part_000 the
\* callback of the admin send leaves the responses as they are.
C17_AtMostOneResponse ==
    /\ [](\A r \in Requests : Len(responses[r]) <= 1)
    /\ [][\A r \in Requests :
              (deployment = "part_000" /\ adminMail[r] # adminMail'[r]
               /\ adminMail[r].state = "pending")
                  => responses'[r] = responses[r]]_vars

C17_Witness ==
    /\ deployment = "part_000"
    /\ \E r, q \in Requests :
           /\ adminMail[r].state = "failed" /\ customerMail[r].state = "failed"
           /\ Len(responses[r]) = 1
           /\ pc[q] = "rejected" /\ Len(responses[q]) = 1


\* the terminal states of the workflow: REJECTED (400) and RESPONDED (500
\* after a failed INSERT, 200 after the notification)
Terminal == {"rejected", "failed", "responded"}

C18_AnsweredUnlessThrown ==
    \A r \in Requests :
        (pc[r] # "idle" /\ ~validateInput(body[r]).threw)
            ~> (pc[r] \in Terminal /\ responses[r] # <<>>)

\* the four responses the handler writes
SpecifiedResponses ==
    {Json(400, "error", m) : m \in {MsgRequired, MsgName, MsgEmail, MsgPhone}}
    \cup {Json(500, "error", MsgSaveFailed)}
    \cup {Json(200, "message", m) : m \in {MsgSuccess, MsgEmailFailed, MsgCustomerFailed}}

\* C19: validateInput returns for every body, so a handled request is
\* either answered with one of the handler's responses or waits for its
\* INSERT or its notification; the handler is never left by an exception.
C19_ValidateInputNeverThrows ==
    \A r \in Requests :
        pc[r] # "idle" =>
            /\ ~validateInput(body[r]).threw
            /\ pc[r] # "threw"
            /\ \A i \in 1..Len(responses[r]) : responses[r][i] \in SpecifiedResponses


\* C20 as stated: every stored row has five non-empty fields, its name,
\* email and phone still pass rules 2 to 4, and the customer mail's
\* recipient is a well-formed address.
C20_StoredRowsStillValid ==
    \A i \in 1..Len(rows) :
        /\ \A f \in Fields : rows[i][f] # <<>>
        /\ NameRegex(rows[i].name)
        /\ EmailRegex(rows[i].email)
        /\ PhoneRegex(PhoneStripped(rows[i].phone))
        /\ customerMail[rows[i].req].state # "none" =>
               EmailRegex(customerMail[rows[i].req].to)

\* a raw value without markup: neither a tag nor an entity can start in it
NoMarkup(v) == v.kind = "string" /\ NoneIn(v.chars, {"<", "&"})

\* C20 amended: the stored name and phone are non-empty and still pass
\* rules 2 and 4; the stored email, service and details are non-empty, and
\* the stored email and the customer recipient still pass rule 3, when the
\* raw value holds neither < nor &.
C20_StoredRowsValidWithoutMarkup ==
    \A i \in 1..Len(rows) :
        LET raw == body[rows[i].req]
        IN  /\ rows[i].name # <<>> /\ NameRegex(rows[i].name)
            /\ rows[i].phone # <<>> /\ PhoneRegex(PhoneStripped(rows[i].phone))
            /\ \A f \in {"email", "service", "details"} :
                   NoMarkup(raw[f]) => rows[i][f] # <<>>
            /\ NoMarkup(raw.email) =>
                   /\ EmailRegex(rows[i].email)
                   /\ customerMail[rows[i].req].state # "none" =>
                          EmailRegex(customerMail[rows[i].req].to)

C20_Witness ==
    \E i, j \in 1..Len(rows) :
        /\ NoMarkup(body[rows[i].req].email)
        /\ NoMarkup(body[rows[i].req].details)
        /\ customerMail[rows[i].req].to = JaneEmail
        /\ rows[j].details = <<>>
        /\ ~EmailRegex(rows[j].email)

====
